---- MODULE Spec2Model ----
(***************************************************************************)
(* Model of streamlit_app.py: the two-stage DCF function                   *)
(* two_stage_valuation and the script around it (sidebar arithmetic, the   *)
(* call of the function, the illustrative val_series loop).                *)
(*                                                                         *)
(* Numbers.  A Python float is modelled as an exact rational <<num, den>>  *)
(* in lowest terms with den > 0, so equality of values is equality of      *)
(* pairs; rounding, overflow and underflow of IEEE doubles are not         *)
(* modelled.  The only irrational quantity of the program is the mid-year  *)
(* discount factor (1 + wacc) ** (n - 0.5).  Since                         *)
(*     x / (1 + wacc) ** (n - 0.5) = (x / (1 + wacc) ** n) * sqrt(1+wacc)  *)
(* every discounted amount (pv_n, pv_tv, ev) is a rational multiple of     *)
(* sqrt(1 + wacc); such an amount is stored as that rational coefficient.  *)
(* Sums, equalities and signs of discounted amounts are those of their     *)
(* coefficients because sqrt(1 + wacc) > 0 for the rates modelled          *)
(* (wacc > -1).                                                            *)
(***************************************************************************)
EXTENDS Integers, Sequences, FiniteSets, TLC

VARIABLES
    \* locals and parameters of two_stage_valuation
    fcf1, g1, years1, g2, wacc, n, fcfs, pv_fcfs, fcf_last, tv, pv_tv, ev,
    pc,
    \* module-level names of the script
    valuation_input, equity_pct, share_value, agreed_price, amount_paid,
    balance_due, g1_pct, g2_pct, wacc_pct, val_series, ev_curr, series_n,
    app_pc

engine_vars == <<fcf1, g1, years1, g2, wacc, n, fcfs, pv_fcfs, fcf_last, tv,
                 pv_tv, ev, pc>>
sidebar_vars == <<valuation_input, equity_pct, share_value, agreed_price,
                  amount_paid, balance_due, g1_pct, g2_pct, wacc_pct>>
series_vars == <<val_series, ev_curr, series_n>>
vars == <<engine_vars, sidebar_vars, series_vars, app_pc>>

----------------------------------------------------------------------------
(* Bounds of the model *)

\* longest first stage explored (the slider allows up to YearsSliderMax)
MaxYears == 3

(* Program constants *)
YearsSliderMin == 1
YearsSliderMax == 10
ExtraYears == 5
PercentBase == 100
G1SliderMax == 30
G2SliderMax == 10
WaccSliderMin == 5
WaccSliderMax == 25
EquityMax == 100

----------------------------------------------------------------------------
(* Exact rational arithmetic standing for Python float arithmetic *)

Abs(a) == IF a < 0 THEN -a ELSE a

RECURSIVE GCD(_, _)
GCD(a, b) == IF b = 0 THEN a ELSE GCD(b, a % b)

LCM(a, b) == (a \div GCD(a, b)) * b

\* the rational a/b (b # 0) in lowest terms with positive denominator
Rat(a, b) ==
    LET g == GCD(Abs(a), Abs(b))
        s == IF b < 0 THEN -1 ELSE 1
    IN  <<s * (a \div g), s * (b \div g)>>

Zero == Rat(0, 1)
One == Rat(1, 1)

RAdd(x, y) ==
    LET l == LCM(x[2], y[2])
    IN  Rat(x[1] * (l \div x[2]) + y[1] * (l \div y[2]), l)

RNeg(x) == <<-x[1], x[2]>>

RSub(x, y) == RAdd(x, RNeg(y))

RMul(x, y) ==
    LET ga == GCD(Abs(x[1]), y[2])
        gb == GCD(Abs(y[1]), x[2])
    IN  Rat((x[1] \div ga) * (y[1] \div gb), (x[2] \div gb) * (y[2] \div ga))

\* x / y for y # 0 (the callers test y = Zero first: Python raises there)
RDiv(x, y) == RMul(x, Rat(y[2], y[1]))

\* x ** k for an integer k >= 0
RECURSIVE RPow(_, _)
RPow(x, k) == IF k = 0 THEN One ELSE RMul(x, RPow(x, k - 1))

RLess(x, y) == RSub(x, y)[1] < 0
RLeq(x, y) == RSub(x, y)[1] <= 0
IsNegative(x) == x[1] < 0

\* max(x, 0) of Python for a float x
MaxWithZero(x) == IF RLess(Zero, x) \/ x = Zero THEN x ELSE Zero

\* sum(list) of Python: left fold from 0
RECURSIVE SumList(_)
SumList(s) ==
    IF s = <<>> THEN Zero
    ELSE RAdd(SumList(SubSeq(s, 1, Len(s) - 1)), s[Len(s)])

\* f"{k}" for an integer k >= 0: its decimal digits
Digit(d) == <<"0", "1", "2", "3", "4", "5", "6", "7", "8", "9">>[d + 1]

RECURSIVE FormatInt(_)
FormatInt(k) ==
    IF k < 10 THEN <<Digit(k)>> ELSE FormatInt(k \div 10) \o <<Digit(k % 10)>>

----------------------------------------------------------------------------
(* two_stage_valuation: the expressions of its body *)

\* variants of ProjectedFCF: exponent n instead of n - 1; factor 1 - g1
ProjectedFCF_ExponentN(f, g, k) == RMul(f, RPow(RAdd(One, g), k))
ProjectedFCF_Shrinking(f, g, k) == RMul(f, RPow(RSub(One, g), k - 1))

\* fcf_n = fcf1 * ((1 + g1) ** (n - 1))
ProjectedFCF(f, g, k) == RMul(f, RPow(RAdd(One, g), k - 1))

\* x / ((1 + wacc) ** (k - 0.5)), as the coefficient of sqrt(1 + wacc)
MidYearPV(x, w, k) == RDiv(x, RPow(RAdd(One, w), k))

\* variant of StageEndFCF: the extra stage-1 growth step left out
StageEndFCF_NoStep(last, g) == last

\* fcf_last = fcfs[-1] * (1 + g1)
StageEndFCF(last, g) == RMul(last, RAdd(One, g))

\* tv = fcf_last * (1 + g2) / (wacc - g2), for wacc # g2
GordonTV(f, g, w) == RDiv(RMul(f, RAdd(One, g)), RSub(w, g))

\* variant of EnterpriseValue: the last stage-1 year left out of the sum
EnterpriseValue_DropsLastYear(pvs, ptv) ==
    RAdd(SumList(SubSeq(pvs, 1, Len(pvs) - 1)), ptv)

\* ev = sum(pv_fcfs) + pv_tv
EnterpriseValue(pvs, ptv) == RAdd(SumList(pvs), ptv)

(* Inputs of a direct call of the function.  The signature accepts any      *)
(* float and any int, so the sets hold values outside the sidebar's ranges: *)
(* a negative fcf1, years1 = 0, a negative g1, wacc <= g2.                  *)
FCFInputs == {Rat(-1, 1), Zero, One, Rat(2, 1)}
G1Inputs == {Rat(-1, 5), Zero, Rat(1, 5), Rat(1, 4)}
YearsInputs == 0..MaxYears
G2Inputs == {Zero, Rat(1, 20), Rat(1, 10)}
WaccInputs == {Rat(1, 20), Rat(1, 10), Rat(1, 4)}

\* the script's names as they are while no script runs
NoScript ==
    /\ valuation_input = Zero /\ equity_pct = Zero /\ share_value = Zero
    /\ agreed_price = Zero /\ amount_paid = Zero /\ balance_due = Zero
    /\ g1_pct = Zero /\ g2_pct = Zero /\ wacc_pct = Zero
    /\ val_series = <<>> /\ ev_curr = Zero /\ series_n = 0

\* line 35: the function entered with its arguments bound
Entered ==
    /\ n = 1 /\ fcfs = <<>> /\ pv_fcfs = <<>>
    /\ fcf_last = Zero /\ tv = Zero /\ pv_tv = Zero /\ ev = Zero
    /\ pc = "loop"

\* a direct call two_stage_valuation(fcf1, g1, years1, g2, wacc)
Init ==
    /\ fcf1 \in FCFInputs /\ g1 \in G1Inputs /\ years1 \in YearsInputs
    /\ g2 \in G2Inputs /\ wacc \in WaccInputs
    /\ Entered
    /\ NoScript
    /\ app_pc = "direct"

\* lines 36-40: one iteration of the for loop
LoopBody ==
    /\ pc = "loop" /\ n <= years1
    /\ LET fcf_n == ProjectedFCF(fcf1, g1, n)
           pv_n == MidYearPV(fcf_n, wacc, n)
       IN  /\ fcfs' = Append(fcfs, fcf_n)
           /\ pv_fcfs' = Append(pv_fcfs, pv_n)
    /\ n' = n + 1
    /\ UNCHANGED <<fcf1, g1, years1, g2, wacc, fcf_last, tv, pv_tv, ev, pc>>
    /\ UNCHANGED <<sidebar_vars, series_vars, app_pc>>

\* lines 43-46 after the loop: fcfs[-1] raises IndexError on an empty list,
\* the division raises ZeroDivisionError when wacc - g2 is zero
TerminalValue ==
    /\ pc = "loop" /\ n > years1
    /\ IF fcfs = <<>>
       THEN /\ pc' = "IndexError"
            /\ UNCHANGED <<fcf_last, tv, pv_tv>>
       ELSE LET fl == StageEndFCF(fcfs[Len(fcfs)], g1)
            IN  /\ fcf_last' = fl
                /\ IF RSub(wacc, g2) = Zero
                   THEN /\ pc' = "ZeroDivisionError"
                        /\ UNCHANGED <<tv, pv_tv>>
                   ELSE /\ tv' = GordonTV(fl, g2, wacc)
                        /\ pv_tv' = MidYearPV(GordonTV(fl, g2, wacc), wacc, years1)
                        /\ pc' = "sum"
    /\ UNCHANGED <<fcf1, g1, years1, g2, wacc, n, fcfs, pv_fcfs, ev>>
    /\ UNCHANGED <<sidebar_vars, series_vars, app_pc>>

\* lines 48-49
Return ==
    /\ pc = "sum"
    /\ ev' = EnterpriseValue(pv_fcfs, pv_tv)
    /\ pc' = "returned"
    /\ UNCHANGED <<fcf1, g1, years1, g2, wacc, n, fcfs, pv_fcfs, fcf_last, tv,
                   pv_tv>>
    /\ UNCHANGED <<sidebar_vars, series_vars, app_pc>>

Next == LoopBody \/ TerminalValue \/ Return

Spec == Init /\ [][Next]_vars

----------------------------------------------------------------------------
(* The script: sidebar, call of two_stage_valuation, val_series *)

\* share_value = valuation_input * equity_pct / 100
ShareValue(v, e) == RDiv(RMul(v, e), Rat(PercentBase, 1))

\* variant of BalanceDue: the difference without the clamp at 0
BalanceDue_NoClamp(a, p) == RSub(a, p)

\* balance_due = max(agreed_price - amount_paid, 0)
BalanceDue(a, p) == MaxWithZero(RSub(a, p))

\* g1_pct / 100, g2_pct / 100, wacc_pct / 100
FromPercent(p) == RDiv(p, Rat(PercentBase, 1))

\* variant of SeriesRate: the switch one year early (n < years1)
SeriesRate_SwitchEarly(k, y, a, b) == IF k < y THEN a ELSE b

\* lines 123-126: the rate val_series compounds at in year k
SeriesRate(k, y, a, b) == IF k <= y THEN a ELSE b

\* values a widget with bounds lo..hi can return, among the candidates c
Within(c, lo, hi) == {x \in c : RLeq(Rat(lo, 1), x) /\ RLeq(x, Rat(hi, 1))}

(* Values the user has set the widgets to.  number_input with min_value=0.0 *)
(* returns any float >= 0; a slider returns a value between its two ends.   *)
ValuationWidget == {Zero, Rat(10, 1)}
EquityWidget == Within({Zero, Rat(50, 1), Rat(100, 1)}, 0, EquityMax)
AgreedWidget == {Zero, Rat(5, 1)}
PaidWidget == {Zero, Rat(3, 1), Rat(7, 1)}
FCFWidget == {Zero, One, Rat(2, 1)}
G1Slider == Within({Zero, Rat(20, 1), Rat(25, 1)}, 0, G1SliderMax)
YearsSlider ==
    {y \in YearsSliderMin..YearsSliderMax : y <= MaxYears}
G2Slider == Within({Zero, Rat(5, 1), Rat(10, 1)}, 0, G2SliderMax)
WaccSlider ==
    Within({Rat(5, 1), Rat(10, 1), Rat(25, 1)}, WaccSliderMin, WaccSliderMax)

\* a run of the script starts at line 54 with nothing bound
AppInit ==
    /\ fcf1 = Zero /\ g1 = Zero /\ years1 = 0 /\ g2 = Zero /\ wacc = Zero
    /\ n = 0 /\ fcfs = <<>> /\ pv_fcfs = <<>>
    /\ fcf_last = Zero /\ tv = Zero /\ pv_tv = Zero /\ ev = Zero
    /\ pc = "idle"
    /\ NoScript
    /\ app_pc = "sidebar"

(* lines 54-80.  agreed_price defaults to share_value and can be set to any *)
(* value >= 0.  The module-level fcf1 and years1 are passed unchanged as    *)
(* the parameters of the same names (lines 96, 98): one variable each.      *)
Sidebar ==
    /\ app_pc = "sidebar"
    /\ \E v \in ValuationWidget, e \in EquityWidget, p \in PaidWidget :
         /\ valuation_input' = v
         /\ equity_pct' = e
         /\ share_value' = ShareValue(v, e)
         /\ \E a \in AgreedWidget \cup {ShareValue(v, e)} :
              /\ agreed_price' = a
              /\ amount_paid' = p
              /\ balance_due' = BalanceDue(a, p)
    /\ fcf1' \in FCFWidget
    /\ g1_pct' \in G1Slider
    /\ years1' \in YearsSlider
    /\ g2_pct' \in G2Slider
    /\ wacc_pct' \in WaccSlider
    /\ app_pc' = "call"
    /\ UNCHANGED <<g1, g2, wacc, n, fcfs, pv_fcfs, fcf_last, tv, pv_tv, ev, pc>>
    /\ UNCHANGED series_vars

\* lines 95-101 and line 35: the call binds the parameters
CallValuation ==
    /\ app_pc = "call"
    /\ g1' = FromPercent(g1_pct)
    /\ g2' = FromPercent(g2_pct)
    /\ wacc' = FromPercent(wacc_pct)
    /\ n' = 1 /\ fcfs' = <<>> /\ pv_fcfs' = <<>>
    /\ pc' = "loop"
    /\ app_pc' = "valuation"
    /\ UNCHANGED <<fcf1, years1, fcf_last, tv, pv_tv, ev>>
    /\ UNCHANGED <<sidebar_vars, series_vars>>

\* lines 103-121, reached when the call returned (an exception ends the run)
SeriesStart ==
    /\ app_pc = "valuation" /\ pc = "returned"
    /\ val_series' = <<>>
    /\ ev_curr' = valuation_input
    /\ series_n' = 1
    /\ app_pc' = "series"
    /\ UNCHANGED <<engine_vars, sidebar_vars>>

\* lines 122-127: one iteration of the for loop
SeriesStep ==
    /\ app_pc = "series" /\ series_n <= years1 + ExtraYears
    /\ LET rate == SeriesRate(series_n, years1, FromPercent(g1_pct),
                              FromPercent(g2_pct))
           grown == RMul(ev_curr, RAdd(One, rate))
       IN  /\ ev_curr' = grown
           /\ val_series' = Append(val_series,
                  [Ano |-> FormatInt(series_n), Valuation |-> grown])
    /\ series_n' = series_n + 1
    /\ UNCHANGED <<engine_vars, sidebar_vars, app_pc>>

\* lines 129-132: the loop is over, the chart is drawn
SeriesEnd ==
    /\ app_pc = "series" /\ series_n > years1 + ExtraYears
    /\ app_pc' = "done"
    /\ UNCHANGED <<engine_vars, sidebar_vars, series_vars>>

AppNext ==
    \/ Sidebar
    \/ CallValuation
    \/ LoopBody
    \/ TerminalValue
    \/ Return
    \/ SeriesStart
    \/ SeriesStep
    \/ SeriesEnd

AppSpec == AppInit /\ [][AppNext]_vars

----------------------------------------------------------------------------
(* Properties *)

\* the call has ended, by a return or by an exception
Finished == pc \notin {"idle", "loop", "sum"}

\* the preconditions the specification states for the valuation
ValidInputs == ~IsNegative(fcf1) /\ years1 >= 1 /\ RLess(g2, wacc)

\* s[i] + ... + s[j], summed from the first term on
RECURSIVE SumFrom(_, _, _)
SumFrom(s, i, j) == IF i > j THEN Zero ELSE RAdd(s[i], SumFrom(s, i + 1, j))

\* the integer a sequence of decimal digits denotes
DigitValue(c) == CHOOSE d \in 0..9 : Digit(d) = c

RECURSIVE ParseInt(_)
ParseInt(s) ==
    IF s = <<>> THEN 0
    ELSE 10 * ParseInt(SubSeq(s, 1, Len(s) - 1)) + DigitValue(s[Len(s)])

(* C1: a call with wacc = g2 (and a non-empty first stage) ends in the      *)
(* explicit error DivergentTerminalValue, and no call ever ends in a        *)
(* division-by-zero exception.                                              *)
C1_EqualRatesFailExplicitly ==
    /\ pc # "ZeroDivisionError"
    /\ (wacc = g2 /\ years1 >= 1 /\ ~IsNegative(fcf1) /\ Finished)
          => pc = "DivergentTerminalValue"

(* C2: a call with wacc < g2 (other inputs valid) ends in the error         *)
(* DivergentTerminalValue; it never computes or returns a negative terminal *)
(* value.                                                                   *)
C2_LowerRateFailsExplicitly ==
    (RLess(wacc, g2) /\ years1 >= 1 /\ ~IsNegative(fcf1))
       => /\ ~IsNegative(tv) /\ ~IsNegative(pv_tv)
          /\ Finished => pc = "DivergentTerminalValue"

(* C3: a call with fcf1 < 0 or years1 < 1 computes no schedule entry and no *)
(* result: it stays at its entry until it fails with InvalidInput.          *)
C3_InvalidInputFailsFast ==
    (app_pc \in {"direct", "valuation"} /\ (IsNegative(fcf1) \/ years1 < 1))
       => /\ pc \in {"loop", "InvalidInput"}
          /\ fcfs = <<>> /\ pv_fcfs = <<>>
          /\ tv = Zero /\ pv_tv = Zero /\ ev = Zero

(* C4: for valid inputs the returned ev is the sum of the present values of *)
(* the years 1..years1, each once, plus the returned pv_tv.                 *)
C4_SumInvariant ==
    (pc = "returned" /\ ValidInputs)
       => /\ Len(pv_fcfs) = years1
          /\ ev = RAdd(SumFrom(pv_fcfs, 1, years1), pv_tv)

C4_Witness ==
    /\ pc = "returned" /\ ValidInputs /\ years1 >= 2 /\ RLess(Zero, fcf1)
    /\ \A k \in 1..years1 : RLess(Zero, pv_fcfs[k])
    /\ RLess(Zero, pv_tv)

(* C5: a call with years1 >= 1 that returns gives years1 projected FCFs and *)
(* years1 present values; entry 1 is fcf1 itself, each later entry is the   *)
(* one before times (1 + g1), so entry k is fcf1 * (1 + g1)^(k-1).          *)
C5_ScheduleShape ==
    (pc = "returned" /\ years1 >= 1)
       => /\ Len(fcfs) = years1
          /\ Len(pv_fcfs) = years1
          /\ fcfs[1] = fcf1
          /\ \A k \in 1..(years1 - 1) :
                fcfs[k + 1] = RMul(fcfs[k], RAdd(One, g1))
          /\ \A k \in 1..years1 :
                fcfs[k] = RMul(fcf1, RPow(RAdd(One, g1), k - 1))

C5_Witness ==
    /\ pc = "returned" /\ years1 = MaxYears
    /\ fcf1 # Zero /\ g1 \notin {Zero, RNeg(One)}
    /\ fcfs[MaxYears] # fcf1

C5_WitnessSingleYear ==
    pc = "returned" /\ years1 = 1 /\ fcfs = <<fcf1>> /\ fcf1 # Zero

(* C6 as stated: for valid inputs with g1 > 0 (fcf1 any value >= 0) the     *)
(* projected FCFs are strictly increasing.                                  *)
C6_StrictlyIncreasingAnyFCF ==
    (pc = "returned" /\ ValidInputs /\ RLess(Zero, g1))
       => \A k \in 1..(years1 - 1) : RLess(fcfs[k], fcfs[k + 1])

(* C6 amended: for valid inputs with g1 > 0 and fcf1 > 0 the projected FCFs *)
(* are strictly increasing.                                                 *)
C6_StrictlyIncreasingPositiveFCF ==
    (pc = "returned" /\ ValidInputs /\ RLess(Zero, g1) /\ RLess(Zero, fcf1))
       => \A k \in 1..(years1 - 1) : RLess(fcfs[k], fcfs[k + 1])

C6_Witness ==
    /\ pc = "returned" /\ ValidInputs /\ RLess(Zero, g1) /\ RLess(Zero, fcf1)
    /\ years1 >= 2
    /\ RLess(fcfs[1], fcfs[2])

(* C7: for valid inputs tv is the last projected FCF times (1 + g1) times   *)
(* (1 + g2) over (wacc - g2); pv_tv is tv discounted by the factor that     *)
(* discounts the last schedule entry; with g1 = g2 = 0 and years1 = 1, tv   *)
(* is fcf1 / wacc.                                                          *)
C7_TerminalValue ==
    (pc = "returned" /\ ValidInputs)
       => /\ tv = RDiv(RMul(RMul(fcfs[years1], RAdd(One, g1)), RAdd(One, g2)),
                       RSub(wacc, g2))
          /\ pv_tv = RDiv(tv, RPow(RAdd(One, wacc), years1))
          /\ RMul(pv_tv, fcfs[years1]) = RMul(pv_fcfs[years1], tv)
          /\ (g1 = Zero /\ g2 = Zero /\ years1 = 1) => tv = RDiv(fcf1, wacc)

C7_Witness ==
    /\ pc = "returned" /\ ValidInputs /\ years1 >= 2
    /\ RLess(Zero, fcf1) /\ RLess(Zero, g1) /\ RLess(Zero, g2)
    /\ RLess(fcfs[years1], tv)

C7_WitnessPerpetuity ==
    /\ pc = "returned" /\ ValidInputs /\ years1 = 1
    /\ g1 = Zero /\ g2 = Zero /\ RLess(Zero, fcf1)
    /\ RMul(tv, wacc) = fcf1

(* C8: the finished val_series has years1 + 5 entries labelled 1..years1+5  *)
(* in order; it starts from valuation_input: entry 1 is valuation_input     *)
(* times (1 + g1), entry k is entry k-1 times (1 + g1) for k <= years1 and  *)
(* times (1 + g2) for k > years1.                                           *)
C8_IllustrativeSeries ==
    app_pc = "done"
       => /\ Len(val_series) = years1 + ExtraYears
          /\ \A k \in 1..Len(val_series) : ParseInt(val_series[k].Ano) = k
          /\ \A k \in 1..Len(val_series) :
                LET prev == IF k = 1 THEN valuation_input
                            ELSE val_series[k - 1].Valuation
                    g == IF k <= years1 THEN RDiv(g1_pct, Rat(PercentBase, 1))
                         ELSE RDiv(g2_pct, Rat(PercentBase, 1))
                IN  val_series[k].Valuation = RMul(prev, RAdd(One, g))

C8_Witness ==
    /\ app_pc = "done" /\ years1 >= 2
    /\ g1_pct # g2_pct /\ valuation_input # Zero
    /\ ev # valuation_input
    /\ Len(val_series) = years1 + ExtraYears
    /\ val_series[years1 + 1].Valuation # val_series[years1].Valuation

(* C9: once the sidebar has run, balance_due is agreed_price - amount_paid  *)
(* when amount_paid <= agreed_price and 0 otherwise; it is never negative.  *)
C9_BalanceDue ==
    app_pc \notin {"sidebar", "direct"}
       => /\ ~IsNegative(balance_due)
          /\ IF RLeq(amount_paid, agreed_price)
             THEN balance_due = RSub(agreed_price, amount_paid)
             ELSE balance_due = Zero

C9_Witness ==
    /\ app_pc = "call"
    /\ RLess(agreed_price, amount_paid)
    /\ balance_due = Zero

C9_WitnessOwing ==
    /\ app_pc = "call"
    /\ RLess(amount_paid, agreed_price) /\ RLess(Zero, amount_paid)
    /\ RLess(Zero, balance_due)

(* C10: for every setting of the sidebar widgets the script's call of       *)
(* two_stage_valuation is made with wacc > g2, ends by returning, and the   *)
(* returned pv_tv and ev are not negative.                                  *)
C10_WidgetsEnsurePrecondition ==
    (app_pc = "valuation" /\ Finished)
       => /\ RLess(g2, wacc)
          /\ pc = "returned"
          /\ ~IsNegative(pv_tv) /\ ~IsNegative(ev)

====
